---- MODULE Spec2Model ----
(***************************************************************************)
(* Model of mancala.py: the MancalaBucket / MancalaBoard engine and the    *)
(* two game drivers (two_player_game, single_player_game).                 *)
(*                                                                         *)
(* Buckets are identified by their `number` field: pits are 0..2N-1, the   *)
(* scoring bucket of player 1 is -1 and the scoring bucket of player 2 is  *)
(* -2.  num_beads, next_bucket and opposite_map are the per-bucket fields  *)
(* and the board's map, as functions of the bucket number.                 *)
(***************************************************************************)
EXTENDS Integers, Sequences, FiniteSets

\* ---- bounds of the model ------------------------------------------------
MaxPits  == 2      \* num_buckets_per_player ranges over 1..MaxPits (Spec)
MaxBeads == 3      \* starting_beads ranges over 0..MaxBeads (Spec)
MaxTotal == 12     \* beads on a board, 2 * N * starting_beads, at most (Spec)
MaxMoves == 7      \* accepted moves explored per driver game (DriverSpec)
MaxPlayTotal == 8  \* beads on a board, 2 * N * starting_beads, at most (PlaySpec)

\* ---- program constants --------------------------------------------------
P1_STORE == -1                 \* MancalaBucket(-1, True, 1)
P2_STORE == -2                 \* MancalaBucket(-2, True, 2)
None == -3                     \* Python None: next_bucket before set_next_bucket
DefaultBuckets == 6            \* num_buckets_per_player=6
DriverBeads == 4               \* MancalaBoard(4) in both drivers
HumanChoices == 1..6           \* assert move in [1, 2, 3, 4, 5, 6]
ComputerChoices == 7..12       \* random.choice([7, 8, 9, 10, 11, 12])
ValueError == 0                \* validate_move raising ValueError

VARIABLES
  starting_beads,              \* constructor argument
  num_buckets_per_player,      \* constructor argument N
  num_beads,                   \* bucket number -> MancalaBucket.num_beads
  next_bucket,                 \* bucket number -> number of .next_bucket (or None)
  opposite_map,                \* pit number -> number of the opposite bucket
  \* record of the last call of MancalaBoard.move
  ret,                         \* "none" | "True" | "False" | "MoveError" |
                               \* "ScoringBucket" (the MoveError of get_beads)
  arg_index, arg_player,       \* its arguments
  pre,                         \* num_beads when it was called
  sown,                        \* num_beads when the while loop ended
  deposits,                    \* the buckets add_bead() was called on, in order
  \* the drivers
  game,                        \* "api" | "two" | "single"
  turn,                        \* two_player_game: turn
  pc,                          \* "human" | "computer" | "exit"
  asked,                       \* the player the last request went to
  moves,                       \* accepted moves so far, counted from the end
                               \* of the opening (negative during an opening)
  winner                       \* handle_victory: the result of player_ahead()
                               \* it announced, None before

vars == <<starting_beads, num_buckets_per_player, num_beads, next_bucket,
          opposite_map, ret, arg_index, arg_player, pre, sown, deposits,
          game, turn, pc, asked, moves, winner>>

board == <<starting_beads, num_buckets_per_player, num_beads, next_bucket,
           opposite_map>>
call == <<ret, arg_index, arg_player, pre, sown, deposits>>

\* ---- MancalaBucket ------------------------------------------------------
Pits(N) == 0..(2*N - 1)
Buckets(N) == Pits(N) \cup {P1_STORE, P2_STORE}

\* MancalaBucket.scoring, as set by the constructor calls of MancalaBoard
scoring(b) == b \in {P1_STORE, P2_STORE}

\* MancalaBucket.owner, as set by the constructor calls of MancalaBoard
owner(b, N) ==
  IF b = P1_STORE THEN 1
  ELSE IF b = P2_STORE THEN 2
  ELSE IF b < N THEN 1 ELSE 2

\* get_beads with its test inverted: 'if not self.scoring: raise'
get_beads_inverted(nb, b) ==
  IF ~scoring(b)
  THEN [raised |-> TRUE, beads |-> 0, num_beads |-> nb]
  ELSE [raised |-> FALSE, beads |-> nb[b], num_beads |-> [nb EXCEPT ![b] = 0]]

\* get_beads: whether it raised, the beads fetched and the bucket contents
\* afterwards
get_beads(nb, b) ==
  IF scoring(b)
  THEN [raised |-> TRUE, beads |-> 0, num_beads |-> nb]
  ELSE [raised |-> FALSE, beads |-> nb[b], num_beads |-> [nb EXCEPT ![b] = 0]]

\* add_beads (the BeadCountError checks guard n >= 0)
\* add_beads raises BeadCountError: not an int, or negative
BeadCountError(n) == ~(n \in Int) \/ n < 0

add_beads(nb, b, n) == [nb EXCEPT ![b] = @ + n]

add_bead(nb, b) == add_beads(nb, b, 1)

\* ---- MancalaBoard.__init__ ----------------------------------------------
\* The set_next_bucket calls of the constructor, in program order, as
\* <<bucket, next>> pairs.  The scoring buckets are never appended to
\* self.buckets, so self.buckets[-1] is always the last pit appended.
SetNextCalls(N) ==
  [i \in 1..(N - 1) |-> <<i - 1, i>>]                 \* buckets[i-1] -> bucket
  \o << <<N - 1, P2_STORE>> >>                        \* buckets[-1] -> scoring_bucket_p2
  \o [k \in 1..N |-> <<N + k - 2, N + k - 1>>]        \* buckets[-1] -> bucket
  \o << <<2*N - 1, P1_STORE>>, <<P1_STORE, 0>> >>     \* close loop

RECURSIVE ApplySetNext(_, _)
ApplySetNext(nxt, calls) ==
  IF calls = <<>> THEN nxt
  ELSE ApplySetNext([nxt EXCEPT ![calls[1][1]] = calls[1][2]], Tail(calls))

\* non_scoring_buckets: the numbers of self.buckets that are not scoring
non_scoring_buckets(N) == [k \in 1..(2*N) |-> k - 1]

\* the index of the bucket half a turn round the board
opposite_index_rotated(N, number) == (number + N) % (2*N)

\* (2*num_buckets_per_player-1) - bucket.number
opposite_index(N, number) == (2*N - 1) - number

Construct(s, N) ==
  /\ starting_beads = s
  /\ num_buckets_per_player = N
  /\ num_beads = [b \in Buckets(N) |-> IF scoring(b) THEN 0 ELSE s]
  /\ next_bucket = ApplySetNext([b \in Buckets(N) |-> None], SetNextCalls(N))
  /\ opposite_map = [b \in Pits(N) |-> non_scoring_buckets(N)[opposite_index(N, b) + 1]]

NoCall ==
  /\ ret = "none" /\ arg_index = None /\ arg_player = 0
  /\ pre = num_beads /\ sown = num_beads /\ deposits = <<>>

\* ---- MancalaBoard.move --------------------------------------------------
StoreOf(player) == IF player = 1 THEN P1_STORE ELSE P2_STORE

\* the while loop without its 'continue': the other player's store is sown too
RECURSIVE SowNoSkip(_, _, _, _, _, _, _)
SowNoSkip(nb, nxt, N, bucket, beads, player, deps) ==
  IF beads = 0 THEN [num_beads |-> nb, bucket |-> bucket, deposits |-> deps]
  ELSE LET b == nxt[bucket] IN
       SowNoSkip(add_bead(nb, b), nxt, N, b, beads - 1, player, Append(deps, b))

\* while beads: ... (the sowing loop)
RECURSIVE Sow(_, _, _, _, _, _, _)
Sow(nb, nxt, N, bucket, beads, player, deps) ==
  IF beads = 0 THEN [num_beads |-> nb, bucket |-> bucket, deposits |-> deps]
  ELSE LET b == nxt[bucket] IN
       IF scoring(b) /\ owner(b, N) # player
       THEN Sow(nb, nxt, N, b, beads, player, deps)
       ELSE Sow(add_bead(nb, b), nxt, N, b, beads - 1, player, Append(deps, b))

\* a take in the wrong direction: the store is emptied into the opposite bucket
TakeReversed(nb, opp, N, bucket, player) ==
  IF ~scoring(bucket) /\ owner(bucket, N) = player /\ nb[bucket] = 1
     /\ nb[opp[bucket]] # 0
  THEN add_beads([nb EXCEPT ![StoreOf(player)] = 0], opp[bucket], nb[StoreOf(player)])
  ELSE nb

\* a take that forgets to empty the opposite bucket
TakeKeep(nb, opp, N, bucket, player) ==
  IF ~scoring(bucket) /\ owner(bucket, N) = player /\ nb[bucket] = 1
     /\ nb[opp[bucket]] # 0
  THEN add_beads(nb, StoreOf(player), nb[opp[bucket]])
  ELSE nb

\* a take that also happens when the opposite bucket is empty, and carries
\* the landing bead to the store
TakeEvenIfEmpty(nb, opp, N, bucket, player) ==
  IF ~scoring(bucket) /\ owner(bucket, N) = player /\ nb[bucket] = 1
  THEN add_beads([nb EXCEPT ![opp[bucket]] = 0, ![bucket] = 0],
                 StoreOf(player), nb[opp[bucket]] + 1)
  ELSE nb

\* a take that does not ask for the landing bucket to hold exactly one bead
TakeAnyCount(nb, opp, N, bucket, player) ==
  IF ~scoring(bucket) /\ owner(bucket, N) = player /\ nb[bucket] >= 1
     /\ nb[opp[bucket]] # 0
  THEN LET g == get_beads(nb, opp[bucket]) IN
       add_beads(g.num_beads, StoreOf(player), g.beads)
  ELSE nb

\* the take: elif bucket.owner == player and bucket.num_beads == 1: ...
Take(nb, opp, N, bucket, player) ==
  IF ~scoring(bucket) /\ owner(bucket, N) = player /\ nb[bucket] = 1
     /\ nb[opp[bucket]] # 0
  THEN LET g == get_beads(nb, opp[bucket]) IN
       add_beads(g.num_beads, StoreOf(player), g.beads)
  ELSE nb

\* opposite.get_beads() raises inside the take
TakeRaises(nb, opp, N, bucket, player) ==
  /\ ~scoring(bucket) /\ owner(bucket, N) = player /\ nb[bucket] = 1
  /\ nb[opp[bucket]] # 0
  /\ get_beads(nb, opp[bucket]).raised

\* another turn whenever the last bead lands on the mover's side
ReturnsOwnSide(bucket, N, player) == owner(bucket, N) = player

\* if bucket.scoring: return True ... return False
Returns(bucket, N, player) == scoring(bucket)

\* the part of move after the while loop
Resolve(s, opp, N, player) ==
  [ret |-> IF Returns(s.bucket, N, player) THEN "True"
           ELSE IF TakeRaises(s.num_beads, opp, N, s.bucket, player)
                THEN "ScoringBucket" ELSE "False",
   num_beads |-> Take(s.num_beads, opp, N, s.bucket, player),
   sown |-> s.num_beads, deposits |-> s.deposits]

\* move without the 'if not beads: raise MoveError' check
move_unchecked(nb, nxt, opp, N, bucket_index, player) ==
  LET g == get_beads(nb, bucket_index) IN
  IF g.raised
  THEN [ret |-> "ScoringBucket", num_beads |-> nb, sown |-> nb, deposits |-> <<>>]
  ELSE Resolve(Sow(g.num_beads, nxt, N, bucket_index, g.beads, player, <<>>),
               opp, N, player)

\* MancalaBoard.move(bucket_index, player)
move(nb, nxt, opp, N, bucket_index, player) ==
  LET g == get_beads(nb, bucket_index) IN
  IF g.raised
  THEN [ret |-> "ScoringBucket", num_beads |-> nb, sown |-> nb, deposits |-> <<>>]
  ELSE IF g.beads = 0
  THEN [ret |-> "MoveError", num_beads |-> g.num_beads,
        sown |-> g.num_beads, deposits |-> <<>>]
  ELSE Resolve(Sow(g.num_beads, nxt, N, bucket_index, g.beads, player, <<>>),
               opp, N, player)

\* the call mancala_board.move(i, p) and its record
CallMove(i, p) ==
  \E r \in {move(num_beads, next_bucket, opposite_map, num_buckets_per_player, i, p)} :
     /\ num_beads' = r.num_beads
     /\ ret' = r.ret
     /\ arg_index' = i
     /\ arg_player' = p
     /\ pre' = num_beads
     /\ sown' = r.sown
     /\ deposits' = r.deposits
     /\ UNCHANGED <<starting_beads, num_buckets_per_player, next_bucket, opposite_map>>

\* ---- MancalaBoard queries -----------------------------------------------
get_opposite(opp, bucket_index) == opp[bucket_index]

RECURSIVE SumSeq(_)
SumSeq(s) == IF s = <<>> THEN 0 ELSE s[1] + SumSeq(Tail(s))

\* get_buckets_for_player: the pits of self.buckets owned by player, in order
get_buckets_for_player(N, player) ==
  SelectSeq(non_scoring_buckets(N), LAMBDA b : owner(b, N) = player /\ ~scoring(b))

BeadsOf(nb, N, player) ==
  LET bs == get_buckets_for_player(N, player)
  IN SumSeq([k \in 1..Len(bs) |-> nb[bs[k]]])

\* a check that looks at player 2's side only
check_victory_p2(nb, N) == BeadsOf(nb, N, 2) = 0

\* a check that waits for both sides to be empty
check_victory_both(nb, N) == BeadsOf(nb, N, 1) = 0 /\ BeadsOf(nb, N, 2) = 0

check_victory(nb, N) == BeadsOf(nb, N, 1) = 0 \/ BeadsOf(nb, N, 2) = 0

\* a comparison of all the beads each player has, pits and store
player_ahead_total(nb, N) ==
  IF nb[P1_STORE] + BeadsOf(nb, N, 1) > nb[P2_STORE] + BeadsOf(nb, N, 2) THEN 1
  ELSE IF nb[P2_STORE] + BeadsOf(nb, N, 2) > nb[P1_STORE] + BeadsOf(nb, N, 1) THEN 2
  ELSE 0

player_ahead(nb, N) ==
  IF nb[P1_STORE] > nb[P2_STORE] THEN 1
  ELSE IF nb[P2_STORE] > nb[P1_STORE] THEN 2
  ELSE 0

\* ---- the engine driven through its interface (Spec) ---------------------
Init ==
  /\ \E N \in 1..MaxPits, s \in 0..MaxBeads :
        2 * N * s <= MaxTotal /\ Construct(s, N)
  /\ NoCall
  /\ game = "api" /\ turn = 1 /\ pc = "human" /\ asked = 0 /\ moves = 0
  /\ winner = None

\* move(i, p) called by player p on one of its own pits, in any order of the
\* players; the pit may be empty
Move ==
  /\ game = "api"
  /\ \E p \in {1, 2} :
       \E i \in {b \in Pits(num_buckets_per_player) :
                   owner(b, num_buckets_per_player) = p} : CallMove(i, p)
  /\ UNCHANGED <<game, turn, pc, asked, moves, winner>>

Next == Move

Spec == Init /\ [][Next]_vars

\* ---- the drivers (DriverSpec) -------------------------------------------
\* what input() can return: a numeral, or text that int() rejects
Inputs ==
  {[numeric |-> TRUE, value |-> v] : v \in 0..7}
    \cup {[numeric |-> FALSE, value |-> 0]}

\* validate_move: the move, or ValueError
validate_move(inp) ==
  IF inp.numeric /\ inp.value \in HumanChoices THEN inp.value ELSE ValueError

\* find_best_move: the values random.choice can return, whatever the difficulty
find_best_move == ComputerChoices

\* The pits moved in the first twelve turns of one game on MancalaBoard(4),
\* players 1 and 2 alternating: an opening that leaves few beads in
\* player 1's pits.  EndgameSpec answers the first requests with it.
Opening == <<3, 9, 5, 8, 1, 6, 0, 9, 1, 8, 3, 6>>

\* the pit the opening moves next
OpeningPit == Opening[Len(Opening) + moves + 1]

\* what a human player may enter when asked: the entry that picks the pit of
\* the opening while it lasts, anything afterwards
HumanAnswers(p) ==
  IF moves < 0
  THEN {[numeric |-> TRUE, value |-> IF p = 1 THEN OpeningPit + 1 ELSE 12 - OpeningPit]}
  ELSE Inputs

\* what find_best_move may return: the value that picks the pit of the
\* opening while it lasts, any value of random.choice afterwards
ComputerAnswers == IF moves < 0 THEN {OpeningPit + 1} ELSE find_best_move

\* mancala_board.move(move-1, ...) of player 1 and of the computer
P1Index(mv) == mv - 1

\* the reversal without the offset to player 2's side
P2IndexNoOffset(mv) == 7 - mv

\* move = 7 - move; mancala_board.move((move+5), turn)
P2Index(mv) == (7 - mv) + 5

ComputerIndex(mv) == mv - 1

\* a driver that hands the turn over after every call
TurnAfterAlways(t, r) == 3 - t

\* two_player_game: 'continue' on True and on MoveError, else turn = 2 / turn = 1
TurnAfter(t, r) == IF r = "False" THEN 3 - t ELSE t

\* single_player_game: the loop that runs next
LoopAfter(l, r) ==
  IF r = "False" THEN (IF l = "human" THEN "computer" ELSE "human") ELSE l

\* the request to player p was answered by an input validate_move rejects
Reject(p) ==
  /\ asked' = p
  /\ ret' = "none" /\ arg_index' = None /\ arg_player' = 0
  /\ pre' = num_beads /\ sown' = num_beads /\ deposits' = <<>>
  /\ UNCHANGED <<board, moves>>

\* the request to player p led to mancala_board.move(i, p)
DriverCall(p, i) ==
  /\ asked' = p
  /\ CallMove(i, p)
  /\ moves' = IF ret' \in {"True", "False"} THEN moves + 1 ELSE moves

\* handle_victory: winner = mancala_board.player_ahead() ... sys.exit(0)
Exit ==
  /\ winner' = player_ahead(num_beads, num_buckets_per_player)
  /\ pc' = "exit"
  /\ UNCHANGED <<board, call, game, turn, asked, moves>>

DriverInit ==
  /\ Construct(DriverBeads, DefaultBuckets)
  /\ NoCall
  /\ game \in {"two", "single"}
  /\ turn = 1 /\ pc = "human" /\ asked = 0 /\ moves = 0
  /\ winner = None

\* one iteration of the loop of two_player_game
TwoPlayerGame ==
  /\ game = "two" /\ pc # "exit"
  /\ IF check_victory(num_beads, num_buckets_per_player)
     THEN Exit
     ELSE /\ moves < MaxMoves
          /\ \E inp \in HumanAnswers(turn) :
               LET mv == validate_move(inp) IN
               IF mv = ValueError
               THEN Reject(turn) /\ UNCHANGED turn
               ELSE /\ DriverCall(turn, IF turn = 1 THEN P1Index(mv) ELSE P2Index(mv))
                    /\ turn' = TurnAfter(turn, ret')
          /\ UNCHANGED <<game, pc, winner>>

\* one iteration of the outer loop of single_player_game, up to player 1's move
SinglePlayerHuman ==
  /\ game = "single" /\ pc = "human"
  /\ IF check_victory(num_beads, num_buckets_per_player)
     THEN Exit
     ELSE /\ moves < MaxMoves
          /\ \E inp \in HumanAnswers(1) :
               LET mv == validate_move(inp) IN
               IF mv = ValueError
               THEN Reject(1) /\ UNCHANGED pc
               ELSE /\ DriverCall(1, P1Index(mv))
                    /\ pc' = LoopAfter(pc, ret')
          /\ UNCHANGED <<game, turn, winner>>

\* one iteration of the 'while not_moved' loop of single_player_game
SinglePlayerComputer ==
  /\ game = "single" /\ pc = "computer"
  /\ IF check_victory(num_beads, num_buckets_per_player)
     THEN Exit
     ELSE /\ moves < MaxMoves
          /\ \E mv \in ComputerAnswers :
               /\ DriverCall(2, ComputerIndex(mv))
               /\ pc' = LoopAfter(pc, ret')
          /\ UNCHANGED <<game, turn, winner>>

DriverNext == TwoPlayerGame \/ SinglePlayerHuman \/ SinglePlayerComputer

DriverSpec == DriverInit /\ [][DriverNext]_vars

\* ---- the drivers after the opening (EndgameSpec) -----------------------
EndgameInit ==
  /\ Construct(DriverBeads, DefaultBuckets)
  /\ NoCall
  /\ game \in {"two", "single"}
  /\ turn = 1 /\ pc = "human" /\ asked = 0 /\ moves = -Len(Opening)
  /\ winner = None

EndgameSpec == EndgameInit /\ [][DriverNext]_vars

\* ---- two_player_game on any board, legal answers only (PlaySpec) --------
PlayInit ==
  /\ \E N \in 1..MaxPits, s \in 1..MaxBeads :
        2 * N * s <= MaxPlayTotal /\ Construct(s, N)
  /\ NoCall
  /\ game = "play" /\ turn = 1 /\ pc = "human" /\ asked = 0 /\ moves = 0
  /\ winner = None

\* one iteration of the loop of two_player_game, the request answered with a
\* pit of the player whose turn it is that holds beads
LegalPlay ==
  /\ game = "play" /\ pc # "exit"
  /\ IF check_victory(num_beads, num_buckets_per_player)
     THEN Exit
     ELSE /\ \E i \in {b \in Pits(num_buckets_per_player) :
                         /\ owner(b, num_buckets_per_player) = turn
                         /\ num_beads[b] > 0} :
               /\ asked' = turn
               /\ CallMove(i, turn)
               /\ turn' = TurnAfter(turn, ret')
          /\ UNCHANGED <<game, pc, moves, winner>>

PlayNext == LegalPlay

\* the loop goes on as long as its requests are answered
PlaySpec == PlayInit /\ [][PlayNext]_vars /\ WF_vars(PlayNext)

\* ---- helpers of the properties ------------------------------------------
N == num_buckets_per_player

\* all buckets of the board, every one once
AllBuckets == non_scoring_buckets(N) \o <<P1_STORE, P2_STORE>>

TotalBeads(nb) == SumSeq([k \in 1..Len(AllBuckets) |-> nb[AllBuckets[k]]])

Called == ret # "none"
Accepted == ret \in {"True", "False"}
Landing == deposits[Len(deposits)]
Occurrences(b) == Cardinality({k \in 1..Len(deposits) : deposits[k] = b})

\* the last bead went into an empty pit of the mover
LandedInOwnEmptyPit ==
  /\ Accepted
  /\ ~scoring(Landing)
  /\ owner(Landing, N) = arg_player
  /\ sown[Landing] = 1

\* C1: after any sequence of moves the beads of all 2N pits and both stores
\* add up to 2N * starting_beads.
C1_BeadConservation == TotalBeads(num_beads) = 2 * N * starting_beads

\* a move that lapped the board and captured has happened
C1_Witness ==
  /\ LandedInOwnEmptyPit
  /\ num_beads # sown
  /\ Landing = arg_index

\* C2: when the last bead lands in an empty pit of the mover and the opposite
\* pit holds c > 0 beads, the mover's store grows by c + 1, the landing pit
\* and the opposite pit end at 0, and move returns false.
C2_CaptureTakesBoth ==
  (LandedInOwnEmptyPit /\ sown[opposite_map[Landing]] > 0) =>
     /\ num_beads[StoreOf(arg_player)]
          = sown[StoreOf(arg_player)] + sown[opposite_map[Landing]] + 1
     /\ num_beads[Landing] = 0
     /\ num_beads[opposite_map[Landing]] = 0
     /\ ret = "False"

\* C3: an accepted move returns true exactly when its last bead was put in
\* the mover's own store.
C3_ExtraTurn ==
  Accepted => (ret = "True" <=> Landing = StoreOf(arg_player))

\* an extra turn has been earned
C3_Witness == ret = "True" /\ Landing = StoreOf(arg_player)

\* C4: a move from a pit of k beads makes exactly k deposits of one bead,
\* none of them in the other player's store, whose count the sowing pass
\* leaves as it was.
C4_SowingCount ==
  Accepted =>
     /\ Len(deposits) = pre[arg_index]
     /\ pre[arg_index] >= 1
     /\ \A k \in 1..Len(deposits) : deposits[k] # StoreOf(3 - arg_player)
     /\ sown[StoreOf(3 - arg_player)] = pre[StoreOf(3 - arg_player)]
     /\ \A b \in Buckets(N) :
          sown[b] = (IF b = arg_index THEN 0 ELSE pre[b]) + Occurrences(b)

\* player 2 sowed past player 1's store into pit 0
C4_Witness ==
  /\ Accepted /\ arg_player = 2 /\ arg_index >= N
  /\ \E k \in 1..Len(deposits) : deposits[k] = 0

\* C5: move on a pit of 0 beads raises MoveError and leaves every bead count
\* as it was.
C5_EmptyPitRejected ==
  (Called /\ pre[arg_index] = 0) => (ret = "MoveError" /\ num_beads = pre)

\* an empty pit was chosen in the middle of a game
C5_Witness ==
  /\ ret = "MoveError" /\ pre[arg_index] = 0
  /\ num_beads[P1_STORE] + num_beads[P2_STORE] > 0

\* the order the links are meant to have: player 1's pits, player 2's store,
\* player 2's pits, player 1's store, pit 0
IntendedNext(b) ==
  IF b = N - 1 THEN P2_STORE
  ELSE IF b = P2_STORE THEN N
  ELSE IF b = 2*N - 1 THEN P1_STORE
  ELSE IF b = P1_STORE THEN 0
  ELSE b + 1

\* C6: the next links are one cycle of length 2N+2 through every bucket, in
\* the order P1 pits, P2 store, P2 pits, P1 store, and no move changes them.
C6_Topology == next_bucket = [b \in Buckets(N) |-> IntendedNext(b)]

\* the bead counts right after MancalaBoard(starting_beads, N)
BuiltBoard == [b \in Buckets(N) |-> IF scoring(b) THEN 0 ELSE starting_beads]

AllZero(player) ==
  \A b \in Pits(N) : owner(b, N) = player => num_beads[b] = 0

\* C7: check_victory() is true exactly when all pits of player 1 or all pits
\* of player 2 are empty, whatever the stores hold, and it is false on the
\* board as built when starting_beads > 0.
C7_VictoryDetection ==
  /\ check_victory(num_beads, N) <=> (AllZero(1) \/ AllZero(2))
  /\ (num_beads = BuiltBoard /\ starting_beads > 0)
        => ~check_victory(num_beads, N)

\* one side has run out of beads while the other still has some
C7_Witness ==
  /\ Called
  /\ check_victory(num_beads, N)
  /\ AllZero(1) /\ ~AllZero(2)
  /\ num_beads[P1_STORE] # num_beads[P2_STORE]

\* C8: no step lowers the count of either store.
C8_StoreMonotonic ==
  [][/\ num_beads'[P1_STORE] >= num_beads[P1_STORE]
     /\ num_beads'[P2_STORE] >= num_beads[P2_STORE]]_vars

\* both stores hold beads and a rejected move has just left them alone
C8_Witness ==
  /\ ret = "MoveError"
  /\ num_beads[P1_STORE] > 0 /\ num_beads[P2_STORE] > 0

\* the player the driver requests the next move from
ToMove == IF game = "two" THEN turn ELSE IF pc = "computer" THEN 2 ELSE 1

\* C9: in both drivers the player asked again is the same one exactly when
\* the move returned true or was rejected (bad input or empty pit), and the
\* other one exactly when the move was accepted and returned false.
C9_TurnOrder ==
  (game # "api" /\ asked # 0 /\ pc # "exit") =>
     /\ ToMove = asked <=> ret \in {"True", "MoveError", "none"}
     /\ ToMove = 3 - asked <=> ret = "False"

\* player 1 has just earned an extra turn in single_player_game
C9_Witness ==
  /\ game = "single" /\ asked = 1 /\ ret = "True" /\ ToMove = 1 /\ pc # "exit"

\* C10: every index a driver passes to move is a pit of the acting player:
\* 0..5 for player 1, 6..11 for player 2, never a store.
C10_MoveSourceRange ==
  (game # "api" /\ Called) =>
     /\ arg_player = 1 => arg_index \in 0..5
     /\ arg_player = 2 => arg_index \in 6..11
     /\ arg_index \in Pits(N)
     /\ owner(arg_index, N) = arg_player

\* player 2 has moved the pit picked by entering 1 in two_player_game
C10_Witness ==
  /\ game = "two" /\ Accepted /\ arg_player = 2 /\ arg_index = 11

\* C11: player_ahead() is 1 exactly when player 1's store holds more than
\* player 2's, 2 exactly when player 2's holds more, 0 exactly when they are
\* equal, whatever lies in the pits; and the drivers announce a winner only
\* on a board where check_victory() is true.
C11_WinnerDetermination ==
  /\ player_ahead(num_beads, N) = 1 <=> num_beads[P1_STORE] > num_beads[P2_STORE]
  /\ player_ahead(num_beads, N) = 2 <=> num_beads[P2_STORE] > num_beads[P1_STORE]
  /\ player_ahead(num_beads, N) = 0 <=> num_beads[P1_STORE] = num_beads[P2_STORE]
  /\ winner # None =>
        /\ winner = player_ahead(num_beads, N)
        /\ AllZero(1) \/ AllZero(2)
        /\ pc = "exit"
  /\ pc = "exit" => winner # None

\* player 1 was announced the winner although player 2 holds more beads
\* when its pits are counted
C11_Witness ==
  /\ pc = "exit" /\ winner = 1
  /\ num_beads[P2_STORE] + BeadsOf(num_beads, N, 2) > num_beads[P1_STORE]

\* the number of beads that takes a sowing from pit i to the mover's own store
\* in the order P1 pits, P2 store, P2 pits, P1 store
BeadsToOwnStore(i, player) == IF player = 1 THEN 2*N - i ELSE 3*N - i

\* C12: for both players, a move from a pit with at least as many beads as
\* it takes to reach the mover's own store (2N - i for player 1, 3N - j for
\* player 2) sows at least one bead into that store, and with exactly that
\* many beads it returns true.
C12_OwnStoreDeposits ==
  Accepted =>
     /\ pre[arg_index] >= BeadsToOwnStore(arg_index, arg_player)
           => sown[StoreOf(arg_player)] >= pre[StoreOf(arg_player)] + 1
     /\ pre[arg_index] = BeadsToOwnStore(arg_index, arg_player)
           => ret = "True"

\* the take of the last call removed beads from a pit
Captured == Accepted /\ num_beads # sown

\* C13 as stated: beads are taken from the opposite pit only if the landing
\* pit held zero beads before the move began.
C13_CaptureOnlyIntoEmptyBeforeMove == Captured => pre[Landing] = 0

\* C13: beads are taken from the opposite pit only if the landing pit is
\* the mover's and held zero beads right before the last bead was placed:
\* it was empty before the move began, or it is the pit the move emptied,
\* reached again by a lap.  Any other pit that held beads before the move
\* never triggers a capture.
C13_CaptureOnlyIntoEmptyAtPlacement ==
  /\ Captured =>
        /\ ~scoring(Landing) /\ owner(Landing, N) = arg_player
        /\ sown[Landing] = 1
        /\ pre[Landing] = 0 \/ Landing = arg_index
  /\ (Accepted /\ ~scoring(Landing) /\ Landing # arg_index /\ pre[Landing] >= 1)
        => ~Captured

\* player 1 lapped the board, through its store, back into the pit it had
\* emptied, and captured
C13_Witness ==
  /\ Captured /\ arg_player = 1
  /\ Landing = arg_index /\ pre[arg_index] = 2*N + 1
  /\ \E k \in 1..Len(deposits) : deposits[k] = P1_STORE

\* C14: when the last bead lands in an empty pit of the mover and the
\* opposite pit holds 0 beads, the resolution moves nothing: the landing pit
\* keeps exactly 1 bead, both stores stay as the sowing left them, and move
\* returns false.
C14_EmptyOppositeNoCapture ==
  (LandedInOwnEmptyPit /\ sown[opposite_map[Landing]] = 0) =>
     /\ num_beads = sown
     /\ num_beads[Landing] = 1
     /\ num_beads[P1_STORE] = sown[P1_STORE]
     /\ num_beads[P2_STORE] = sown[P2_STORE]
     /\ ret = "False"

\* a last bead has landed in an empty pit of the mover, opposite an empty pit,
\* on a board where beads are left to capture elsewhere
C14_Witness ==
  /\ LandedInOwnEmptyPit
  /\ sown[opposite_map[Landing]] = 0
  /\ \E b \in Pits(N) : owner(b, N) # arg_player /\ sown[b] > 0

\* C15: get_opposite(i) is pit 2N-1-i for every pit i; the map is an
\* involution, pairs a pit of one player with a pit of the other, and holds
\* no store; so the only bucket a move takes beads from after the sowing is
\* a pit of the mover's opponent.
C15_OppositeMap ==
  /\ DOMAIN opposite_map = Pits(N)
  /\ \A i \in Pits(N) :
        /\ get_opposite(opposite_map, i) = 2*N - 1 - i
        /\ get_opposite(opposite_map, get_opposite(opposite_map, i)) = i
        /\ ~scoring(get_opposite(opposite_map, i))
        /\ owner(get_opposite(opposite_map, i), N) = 3 - owner(i, N)
  /\ Accepted =>
        \A b \in Buckets(N) :
           num_beads[b] < sown[b] =>
              /\ ~scoring(b) /\ owner(b, N) = 3 - arg_player
              /\ b = 2*N - 1 - Landing

\* on a board of two pits a side, a capture by a move that did not lap has
\* emptied the opponent's pit opposite the landing pit
C15_Witness ==
  /\ N = 2 /\ Captured /\ Landing # arg_index
  /\ num_beads[get_opposite(opposite_map, Landing)] = 0
  /\ sown[get_opposite(opposite_map, Landing)] > 0

\* C16: in a game run by a driver the only error move raises is the one for
\* an empty pit: get_beads is never called on a store, and no amount handed
\* to add_beads (the starting beads, the single bead of add_bead, the beads
\* of a take) is negative or a non-integer.
C16_NoProgrammingErrors ==
  (game # "api") =>
     /\ ~BeadCountError(starting_beads) /\ ~BeadCountError(1)
     /\ \A b \in Buckets(N) : ~BeadCountError(num_beads[b])
     /\ Called =>
           /\ ret # "ScoringBucket"
           /\ ~scoring(arg_index)
           /\ ret = "MoveError" => pre[arg_index] = 0
     /\ LandedInOwnEmptyPit =>
           /\ ~scoring(get_opposite(opposite_map, Landing))
           /\ ~get_beads(sown, get_opposite(opposite_map, Landing)).raised
           /\ ~BeadCountError(get_beads(sown, get_opposite(opposite_map, Landing)).beads)

\* after the opening the computer has picked an empty pit and was refused,
\* in a game in which beads have been taken
C16_Witness ==
  /\ game = "single" /\ moves >= 0
  /\ arg_player = 2 /\ ret = "MoveError" /\ pre[arg_index] = 0
  /\ num_beads[P2_STORE] > 0

\* all pits of one player are empty on the board nb
SideEmptyIn(nb) ==
  \E p \in {1, 2} : \A b \in Pits(N) : owner(b, N) = p => nb[b] = 0

\* C17: in both drivers move is never called on a board on which
\* check_victory() is true, and from a board on which it is true the only
\* step is the end of the game through handle_victory, which changes no bead
\* count; nothing happens after that.
C17_VictoryCheckedBeforeMove ==
  /\ []((game # "api" /\ Called) => ~SideEmptyIn(pre))
  /\ [][(game # "api" /\ SideEmptyIn(num_beads)) =>
           /\ pc = "human" \/ pc = "computer"
           /\ pc' = "exit"
           /\ winner' # None
           /\ num_beads' = num_beads
           /\ call' = call]_vars

\* single_player_game has ended right after the accepted move that emptied
\* one side
C17_Witness ==
  /\ game = "single" /\ pc = "exit"
  /\ Accepted /\ ~SideEmptyIn(pre) /\ SideEmptyIn(num_beads)

\* the pit indices the driver of the game g can pass to move for player p:
\* validated entries of a human, values of find_best_move for the computer
AnswerIndices(g, p) ==
  IF g = "single" /\ p = 2
  THEN {ComputerIndex(mv) : mv \in find_best_move}
  ELSE {IF p = 1 THEN P1Index(mv) ELSE P2Index(mv) :
          mv \in {validate_move(inp) : inp \in Inputs} \ {ValueError}}

\* the pits of player p that hold beads on the board nb
NonEmptyPits(nb, p) == {b \in Pits(N) : owner(b, N) = p /\ nb[b] > 0}

\* C18: whenever a driver has requested a move from a player, one of that
\* player's own pits held a bead, and one of the indices the driver can pass
\* for that player (6..11 for the computer) was a move the board accepts.
C18_NoStuckPlayer ==
  (game # "api" /\ asked # 0) =>
     /\ NonEmptyPits(pre, asked) # {}
     /\ \E i \in AnswerIndices(game, asked) :
           /\ i \in Pits(N) /\ owner(i, N) = asked
           /\ move(pre, next_bucket, opposite_map, N, i, asked).ret \in {"True", "False"}
     /\ (game = "single" /\ asked = 2) => AnswerIndices(game, asked) = 6..11

\* the computer was refused an empty pit while player 1, asked before it, was
\* down to a single pit with beads
C18_Witness ==
  /\ game = "single" /\ asked = 2 /\ ret = "MoveError"
  /\ Cardinality(NonEmptyPits(pre, 1)) = 1

\* C19 as stated: every play with legal answers under the two-player turn
\* rules eventually reaches a board on which check_victory() is true.
C19_Termination == <>check_victory(num_beads, N)

\* C19: every play with legal answers under the two-player turn rules
\* reaches a point after which the two stores never change again: either
\* check_victory() has become true and the game has ended, or the play goes
\* on forever without another bead entering a store.
C19_EndsOrStopsScoring ==
  \E c \in 0..MaxPlayTotal :
     <>[](/\ num_beads[P1_STORE] + num_beads[P2_STORE] = c
          /\ check_victory(num_beads, N) => pc = "exit")

\* on MancalaBoard(1, 2) the play is back, after moves by both players, on
\* a board that it reaches again and again with player 1 to move
C19_Witness ==
  /\ game = "play" /\ N = 2 /\ starting_beads = 1
  /\ Called /\ asked = 2 /\ turn = 1
  /\ num_beads = [b \in Buckets(N) |->
                    IF b = 1 THEN 2 ELSE IF b \in {0, 2} THEN 1 ELSE 0]

====
